---- MODULE Spec2Model ----
(***************************************************************************)
(* render_bot.py: the GIF job handler (handle_gif), the two-profile        *)
(* transcode/size-fit routine (convert_to_gif) and the two upload          *)
(* endpoints (upload_to_catbox, upload_to_0x0), over the temp_gifs scratch *)
(* directory.                                                              *)
(*                                                                         *)
(* A job is one run of the coroutine handle_gif.  A coroutine gives up the *)
(* event loop only at an await of a chat-platform call; everything between *)
(* two such awaits (all of convert_to_gif, both uploads) runs with the     *)
(* loop held.  `loop` is the slot that holds the event loop, 0 when free.  *)
(***************************************************************************)
EXTENDS Integers, Sequences, FiniteSets, TLC

VARIABLES fs, loop, nupd, pc, h, cv, srv

vars == <<fs, loop, nupd, pc, h, cv, srv>>

-----------------------------------------------------------------------------
(* Bounds *)

\* updates the application dispatches in one run of the model
MaxUpdates == 2

\* handler coroutines that can be in flight
Slots == {1, 2}

\* file ids the chat platform hands out
FileIds == {"f1"}

\* file names a sender can supply with a document; <<>> is None / ""
FileNames == {<<>>, <<"a", ".gif">>}

-----------------------------------------------------------------------------
(* Program constants *)

HTTP_OK == 200

BUDGET_MB == 8

KIB == 1024

\* st_size / 1024 / 1024 > 8 compares exactly as st_size > 8 * 1024 * 1024
BudgetBytes == BUDGET_MB * KIB * KIB

\* byte sizes a written file can have: at the budget, and one byte over it
Sizes == {BudgetBytes, BudgetBytes + 1}

-----------------------------------------------------------------------------
(* pathlib: a path is a parent directory and a name; a name is a sequence  *)
(* of tokens whose concatenation is the string, a token that starts with a *)
(* dot being a suffix.                                                     *)

EXPORT_DIR == "temp_gifs"

SuffixTokens == {".mp4", ".gif", ".png"}

NoPath == [parent |-> "", name |-> <<>>]

Last(s) == s[Len(s)]

Front(s) == SubSeq(s, 1, Len(s) - 1)

\* PurePath.suffix
Suffix(name) ==
    IF Len(name) > 1 /\ Last(name) \in SuffixTokens THEN <<Last(name)>> ELSE <<>>

\* PurePath.stem
Stem(name) == IF Suffix(name) = <<>> THEN name ELSE Front(name)

\* parent / name
Join(parent, name) == [parent |-> parent, name |-> name]

\* PurePath.with_suffix
WithSuffix(p, suf) == Join(p.parent, Stem(p.name) \o <<suf>>)

-----------------------------------------------------------------------------
(* The scratch directory: a function from the paths that exist to their    *)
(* contents.  `kind` and `by` say which write produced the content: `by`   *)
(* is the slot of the job that wrote it, 0 for a job that has ended.       *)

Content(size, kind, by) == [size |-> size, kind |-> kind, by |-> by]

NoContent == Content(0, "", 0)

Exists(f, p) == p \in DOMAIN f

WriteFile(f, p, c) == [q \in DOMAIN f \cup {p} |-> IF q = p THEN c ELSE f[q]]

\* Path.unlink(missing_ok=True)
Unlink(f, p) == [q \in DOMAIN f \ {p} |-> f[q]]

-----------------------------------------------------------------------------
(* Updates, and the values a job's names are bound to *)

Updates ==
    {[kind |-> "animation", file_id |-> i, file_name |-> <<>>] : i \in FileIds}
    \cup {[kind |-> "document", file_id |-> i, file_name |-> n] :
             i \in FileIds, n \in FileNames}
    \cup {[kind |-> k, file_id |-> "", file_name |-> <<>>] :
             k \in {"other", "nomessage"}}

NoUpdate == [kind |-> "", file_id |-> "", file_name |-> <<>>]

\* an upload function's return value: None, or the str it returns
None == [none |-> TRUE, text |-> <<>>]

Str(t) == [none |-> FALSE, text |-> t]

\* Python truth value of a str-or-None
Truthy(u) == ~u.none /\ u.text # <<>>

\* a chat-platform call: the text it sends, and the link it carries
Msg(text, link) == [text |-> text, link |-> link]

BlankH ==
    [upd |-> NoUpdate, temp |-> NoPath, dl |-> NoContent, tool |-> "",
     gif |-> NoPath, size |-> 0, url |-> None, ups |-> <<>>, msgs |-> <<>>]

BlankCv ==
    [input |-> NoPath, gif |-> NoPath, palette |-> NoPath, medium |-> NoPath,
     med_palette |-> NoPath, tool |-> "", runs |-> <<>>, ret |-> NoPath]

\* a slot with no job in flight
Rest == {"idle", "returned", "raised"}

\* os.getenv('BOT_TOKEN'): None when the variable is absent, else its value
Tokens == {None, Str(<<>>), Str(<<"123:abc">>)}

\* the process: the module-level BOT_TOKEN, where main() is, whether the
\* health-check thread was started and whether the application was built
Process(token) == [token |-> token, pc |-> "main", flask |-> FALSE, app |-> FALSE]

Init ==
    /\ fs = [q \in {} |-> NoContent]
    /\ loop = 0
    /\ nupd = 0
    /\ pc = [s \in Slots |-> "idle"]
    /\ h = [s \in Slots |-> BlankH]
    /\ cv = [s \in Slots |-> BlankCv]
    /\ srv \in {Process(k) : k \in Tokens}

-----------------------------------------------------------------------------
(* main *)

\* the token taken for set whenever the variable exists
TokenSet_notNone(token) == ~token.none

\* line 233: BOT_TOKEN is truthy
TokenSet(token) == Truthy(token)

\* line 233-235
CheckToken ==
    /\ srv.pc = "main"
    /\ srv' = [srv EXCEPT !.pc = IF TokenSet(srv.token) THEN "flask" ELSE "exited"]
    /\ UNCHANGED <<fs, loop, nupd, pc, h, cv>>

\* line 238-240
StartFlask ==
    /\ srv.pc = "flask"
    /\ srv' = [srv EXCEPT !.flask = TRUE, !.pc = "build"]
    /\ UNCHANGED <<fs, loop, nupd, pc, h, cv>>

\* line 242-246
BuildApplication ==
    /\ srv.pc = "build"
    /\ srv' = [srv EXCEPT !.app = TRUE, !.pc = "run"]
    /\ UNCHANGED <<fs, loop, nupd, pc, h, cv>>

\* line 248-249
RunPolling ==
    /\ srv.pc = "run"
    /\ srv' = [srv EXCEPT !.pc = "polling"]
    /\ UNCHANGED <<fs, loop, nupd, pc, h, cv>>

Main == CheckToken \/ StartFlask \/ BuildApplication \/ RunPolling

-----------------------------------------------------------------------------
(* The application hands the next update to handle_gif.  Built as main()   *)
(* builds it (line 243: no concurrent update processing, a blocking        *)
(* handler), the application awaits each handler before it takes the next  *)
(* update, so at most one job is in flight.  The files of the job that     *)
(* held the slot before are from now on those of an ended job.             *)

Retag(f, s) == [q \in DOMAIN f |-> IF f[q].by = s THEN [f[q] EXCEPT !.by = 0] ELSE f[q]]

FreeSlot == CHOOSE s \in Slots : pc[s] \in Rest /\ \A t \in Slots : pc[t] \in Rest => s <= t

Dispatch(s) ==
    /\ srv.pc = "polling"
    /\ nupd < MaxUpdates
    /\ loop = 0
    /\ pc[s] \in Rest
    /\ s = FreeSlot
    /\ \A t \in Slots : pc[t] \in Rest
    /\ \E u \in Updates :
          h' = [h EXCEPT ![s] = [BlankH EXCEPT !.upd = u]]
    /\ nupd' = nupd + 1
    /\ pc' = [pc EXCEPT ![s] = "reply"]
    /\ fs' = Retag(fs, s)
    /\ UNCHANGED <<loop, cv, srv>>

-----------------------------------------------------------------------------
(* handle_gif *)

Say(s, text, link) == [h EXCEPT ![s].msgs = Append(@, Msg(text, link))]

\* lines 169-174: the name of the scratch file
FileNameOf(u) ==
    IF u.kind = "animation" THEN <<"gif_", u.file_id, ".mp4">>
    ELSE IF u.file_name # <<>> THEN u.file_name
    ELSE <<"doc_", u.file_id>>

\* line 166, then 169-177 up to the next await.  Without a message object
\* line 166 raises AttributeError, and so does line 229 in the handler.
ReplyProcessing(s) ==
    /\ pc[s] = "reply"
    /\ loop = 0
    /\ IF h[s].upd.kind = "nomessage"
       THEN /\ pc' = [pc EXCEPT ![s] = "raised"]
            /\ h' = [h EXCEPT ![s] = BlankH]
       ELSE /\ h' = Say(s, "processing", <<>>)
            /\ \E ok \in BOOLEAN :
                 pc' = [pc EXCEPT ![s] =
                          IF ~ok THEN "except"
                          ELSE IF h[s].upd.kind = "other" THEN "please"
                          ELSE "get_file"]
    /\ UNCHANGED <<fs, loop, nupd, srv, cv>>

\* line 176-177; on return the frame of handle_gif is gone
EditPlease(s) ==
    /\ pc[s] = "please"
    /\ loop = 0
    /\ \E ok \in BOOLEAN :
         /\ pc' = [pc EXCEPT ![s] = IF ok THEN "returned" ELSE "except"]
         /\ h' = IF ok THEN [h EXCEPT ![s] = BlankH] ELSE Say(s, "please", <<>>)
    /\ UNCHANGED <<fs, loop, nupd, srv, cv>>

\* line 180-181
GetFile(s) ==
    /\ pc[s] = "get_file"
    /\ loop = 0
    /\ \E ok \in BOOLEAN :
         /\ pc' = [pc EXCEPT ![s] = IF ok THEN "download" ELSE "except"]
         /\ h' = IF ok
                 THEN [h EXCEPT ![s].temp = Join(EXPORT_DIR, FileNameOf(h[s].upd))]
                 ELSE h
    /\ UNCHANGED <<fs, loop, nupd, srv, cv>>

\* line 182-184: the download writes temp_path, or raises and writes nothing
Download(s) ==
    /\ pc[s] = "download"
    /\ loop = 0
    /\ \/ \E n \in Sizes :
            /\ fs' = WriteFile(fs, h[s].temp, Content(n, "download", s))
            /\ h' = [h EXCEPT ![s].dl = Content(n, "download", s)]
            /\ pc' = [pc EXCEPT ![s] = "edit_converting"]
       \/ /\ fs' = fs
          /\ h' = h
          /\ pc' = [pc EXCEPT ![s] = "except"]
    /\ UNCHANGED <<loop, nupd, srv, cv>>

\* line 187; line 188 then enters convert_to_gif with the loop held
EditConverting(s) ==
    /\ pc[s] = "edit_converting"
    /\ loop = 0
    /\ h' = Say(s, "converting", <<>>)
    /\ \E ok \in BOOLEAN :
         /\ pc' = [pc EXCEPT ![s] = IF ok THEN "check_ffmpeg" ELSE "except"]
         /\ loop' = IF ok THEN s ELSE 0
         /\ cv' = IF ok
                  THEN [cv EXCEPT ![s] =
                          [BlankCv EXCEPT !.input = h[s].temp,
                                          !.gif = WithSuffix(h[s].temp, ".gif")]]
                  ELSE cv
    /\ UNCHANGED <<fs, nupd, srv>>

-----------------------------------------------------------------------------
(* subprocess.run(ffmpeg ...): the outcomes of one invocation that reads    *)
(* `inputs` and writes `out`.  run() raises when the process cannot be      *)
(* started; the exit status is not looked at by the caller.  ffmpeg writes  *)
(* nothing when an input is missing or when the output is one of its        *)
(* inputs; a failing run may leave a truncated output behind.               *)

PaletteSizes == {KIB}

Outcome(raised, rc, f, written) == [raised |-> raised, rc |-> rc, fs |-> f, written |-> written]

Ffmpeg(f, s, inputs, out, kind, sizes) ==
    {Outcome(TRUE, -1, f, NoContent), Outcome(FALSE, 1, f, NoContent)}
    \cup (IF inputs \subseteq DOMAIN f /\ out \notin inputs
          THEN {Outcome(FALSE, 0, WriteFile(f, out, Content(n, kind, s)), Content(n, kind, s)) :
                   n \in sizes}
               \cup {Outcome(FALSE, 1, WriteFile(f, out, Content(BudgetBytes, "truncated", s)),
                             Content(BudgetBytes, "truncated", s))}
          ELSE {})

\* one invocation, as convert_to_gif made it: the command, its exit status
\* (-1: run() raised) and what it wrote
Run(cmd, o) == [cmd |-> cmd, rc |-> o.rc, written |-> o.written]

-----------------------------------------------------------------------------
(* convert_to_gif: no await inside, the loop stays held *)

\* line 116, 120: size_mb > 8
OverBudget(bytes) == bytes > BudgetBytes

\* line 94
PalettePath(input) == Join(input.parent, <<"palette_">> \o Stem(input.name) \o <<".png">>)

\* line 122
MediumPath(input, gif_path) == Join(input.parent, <<"medium_">> \o gif_path.name)

\* line 125
MedPalettePath(input) ==
    Join(input.parent, <<"med_palette_">> \o Stem(input.name) \o <<".png">>)

\* the function returns p
Return(s, p) ==
    /\ cv' = [cv EXCEPT ![s].ret = p]
    /\ pc' = [pc EXCEPT ![s] = "converted"]

\* line 88-94
CheckFfmpeg(s) ==
    /\ pc[s] = "check_ffmpeg"
    /\ loop = s
    /\ \E available \in BOOLEAN :
         IF ~available
         THEN /\ cv' = [cv EXCEPT ![s].tool = "unavailable", ![s].ret = cv[s].input]
              /\ pc' = [pc EXCEPT ![s] = "converted"]
         ELSE /\ cv' = [cv EXCEPT ![s].tool = "available",
                                  ![s].palette = PalettePath(cv[s].input)]
              /\ pc' = [pc EXCEPT ![s] = "palette"]
    /\ UNCHANGED <<fs, loop, nupd, srv, h>>

\* line 97-102; an exception is caught at line 151 and line 154 returns the input
PaletteCmd(s) ==
    /\ pc[s] = "palette"
    /\ loop = s
    /\ \E o \in Ffmpeg(fs, s, {cv[s].input}, cv[s].palette, "palette", PaletteSizes) :
         /\ fs' = o.fs
         /\ cv' = [cv EXCEPT ![s].runs = Append(@, Run("palette", o)),
                             ![s].ret = IF o.raised THEN cv[s].input ELSE @]
         /\ pc' = [pc EXCEPT ![s] = IF o.raised THEN "converted" ELSE "gif_cmd"]
    /\ UNCHANGED <<loop, nupd, srv, h>>

\* line 105-110
GifCmd(s) ==
    /\ pc[s] = "gif_cmd"
    /\ loop = s
    /\ \E o \in Ffmpeg(fs, s, {cv[s].input, cv[s].palette}, cv[s].gif, "pass1", Sizes) :
         /\ fs' = o.fs
         /\ cv' = [cv EXCEPT ![s].runs = Append(@, Run("gif", o)),
                             ![s].ret = IF o.raised THEN cv[s].input ELSE @]
         /\ pc' = [pc EXCEPT ![s] = IF o.raised THEN "converted" ELSE "inspect"]
    /\ UNCHANGED <<loop, nupd, srv, h>>

\* line 113-125, and line 149 or 154 when no second pass is made
Inspect(s) ==
    /\ pc[s] = "inspect"
    /\ loop = s
    /\ fs' = Unlink(fs, cv[s].palette)
    /\ IF ~Exists(fs', cv[s].gif)
       THEN Return(s, cv[s].input)
       ELSE IF ~OverBudget(fs'[cv[s].gif].size)
       THEN Return(s, cv[s].gif)
       ELSE /\ cv' = [cv EXCEPT ![s].medium = MediumPath(cv[s].input, cv[s].gif),
                                ![s].med_palette = MedPalettePath(cv[s].input)]
            /\ pc' = [pc EXCEPT ![s] = "med_palette"]
    /\ UNCHANGED <<loop, nupd, srv, h>>

\* line 126-131
MedPaletteCmd(s) ==
    /\ pc[s] = "med_palette"
    /\ loop = s
    /\ \E o \in Ffmpeg(fs, s, {cv[s].gif}, cv[s].med_palette, "med_palette", PaletteSizes) :
         /\ fs' = o.fs
         /\ cv' = [cv EXCEPT ![s].runs = Append(@, Run("med_palette", o)),
                             ![s].ret = IF o.raised THEN cv[s].input ELSE @]
         /\ pc' = [pc EXCEPT ![s] = IF o.raised THEN "converted" ELSE "med_cmd"]
    /\ UNCHANGED <<loop, nupd, srv, h>>

\* line 134-139
MediumCmd(s) ==
    /\ pc[s] = "med_cmd"
    /\ loop = s
    /\ \E o \in Ffmpeg(fs, s, {cv[s].gif, cv[s].med_palette}, cv[s].medium, "pass2", Sizes) :
         /\ fs' = o.fs
         /\ cv' = [cv EXCEPT ![s].runs = Append(@, Run("medium", o)),
                             ![s].ret = IF o.raised THEN cv[s].input ELSE @]
         /\ pc' = [pc EXCEPT ![s] = IF o.raised THEN "converted" ELSE "finish_medium"]
    /\ UNCHANGED <<loop, nupd, srv, h>>

\* the first-pass file kept when the medium one is returned
FinishMedium_keepsFirst(s) ==
    /\ pc[s] = "finish_medium"
    /\ loop = s
    /\ LET f1 == Unlink(fs, cv[s].med_palette)
       IN  IF ~Exists(f1, cv[s].medium)
           THEN fs' = f1 /\ Return(s, cv[s].gif)
           ELSE fs' = f1 /\ Return(s, cv[s].medium)
    /\ UNCHANGED <<loop, nupd, srv, h>>

\* line 141-149; gif_path.unlink() raises when the file is missing
FinishMedium(s) ==
    /\ pc[s] = "finish_medium"
    /\ loop = s
    /\ LET f1 == Unlink(fs, cv[s].med_palette)
       IN  IF ~Exists(f1, cv[s].medium)
           THEN fs' = f1 /\ Return(s, cv[s].gif)
           ELSE IF ~Exists(f1, cv[s].gif)
           THEN fs' = f1 /\ Return(s, cv[s].input)
           ELSE fs' = Unlink(f1, cv[s].gif) /\ Return(s, cv[s].medium)
    /\ UNCHANGED <<loop, nupd, srv, h>>

-----------------------------------------------------------------------------
(* The upload endpoints *)

Whitespace == {" ", "\n"}

UrlOf(ep) == IF ep = "catbox" THEN "https://files.catbox.moe/x.gif" ELSE "https://0x0.st/x.gif"

\* the bodies an endpoint answers with: a link and a newline, or no link
Bodies(ep) ==
    {<<UrlOf(ep), "\n">>} \cup (IF ep = "catbox" THEN {<<>>} ELSE {<<"\n">>})

\* the answers requests.post can give: an exception (timeout, connection
\* error), or a status and a body
Responses(ep) ==
    {[exc |-> TRUE, status |-> 0, body |-> <<>>]}
    \cup {[exc |-> FALSE, status |-> HTTP_OK, body |-> b] : b \in Bodies(ep)}
    \cup {[exc |-> FALSE, status |-> 500, body |-> <<UrlOf(ep), "\n">>]}

\* open(file_path, 'rb') raises when the file is missing
Post(f, p, ep) == IF Exists(f, p) THEN Responses(ep) ELSE {[exc |-> TRUE, status |-> 0, body |-> <<>>]}

RECURSIVE LStrip(_)
LStrip(b) == IF b # <<>> /\ Head(b) \in Whitespace THEN LStrip(Tail(b)) ELSE b

RECURSIVE RStrip(_)
RStrip(b) == IF b # <<>> /\ Last(b) \in Whitespace THEN RStrip(Front(b)) ELSE b

\* str.strip
Strip(b) == RStrip(LStrip(b))

\* upload_to_catbox, line 51-66, given the answer to its request
upload_to_catbox(r) ==
    IF r.exc THEN None
    ELSE IF r.status = HTTP_OK THEN Str(Strip(r.body))
    ELSE None

\* the body returned as it came
upload_to_0x0_unstripped(r) ==
    IF r.exc THEN None
    ELSE IF r.status = HTTP_OK THEN Str(r.body)
    ELSE None

\* upload_to_0x0, line 70-80
upload_to_0x0(r) ==
    IF r.exc THEN None
    ELSE IF r.status = HTTP_OK THEN Str(Strip(r.body))
    ELSE None

\* what an upload attempt was given and what it got
Attempt(f, p, ep, r) ==
    [ep |-> ep, path |-> p,
     sent |-> IF Exists(f, p) THEN f[p] ELSE NoContent,
     resp |-> r]

-----------------------------------------------------------------------------
(* handle_gif, from the return of convert_to_gif *)

\* the downloaded file unlinked whatever convert_to_gif returned
AfterConvert_alwaysUnlinks(s) ==
    /\ pc[s] = "converted"
    /\ loop = s
    /\ LET gif_path == cv[s].ret
           f1 == Unlink(fs, h[s].temp)
       IN  /\ fs' = f1
           /\ IF Exists(f1, gif_path)
              THEN /\ h' = [h EXCEPT ![s].gif = gif_path, ![s].tool = cv[s].tool,
                                     ![s].size = f1[gif_path].size]
                   /\ pc' = [pc EXCEPT ![s] = "edit_uploading"]
              ELSE /\ h' = [h EXCEPT ![s].gif = gif_path, ![s].tool = cv[s].tool]
                   /\ pc' = [pc EXCEPT ![s] = "except"]
    /\ cv' = [cv EXCEPT ![s] = BlankCv]
    /\ loop' = 0
    /\ UNCHANGED <<nupd, srv>>

\* line 188-198: the frame of convert_to_gif is gone; stat() raises when the
\* returned path is missing
AfterConvert(s) ==
    /\ pc[s] = "converted"
    /\ loop = s
    /\ LET gif_path == cv[s].ret
           f1 == IF gif_path # h[s].temp THEN Unlink(fs, h[s].temp) ELSE fs
       IN  /\ fs' = f1
           /\ IF Exists(f1, gif_path)
              THEN /\ h' = [h EXCEPT ![s].gif = gif_path, ![s].tool = cv[s].tool,
                                     ![s].size = f1[gif_path].size]
                   /\ pc' = [pc EXCEPT ![s] = "edit_uploading"]
              ELSE /\ h' = [h EXCEPT ![s].gif = gif_path, ![s].tool = cv[s].tool]
                   /\ pc' = [pc EXCEPT ![s] = "except"]
    /\ cv' = [cv EXCEPT ![s] = BlankCv]
    /\ loop' = 0
    /\ UNCHANGED <<nupd, srv>>

\* line 198
EditUploading(s) ==
    /\ pc[s] = "edit_uploading"
    /\ loop = 0
    /\ h' = Say(s, "uploading", <<>>)
    /\ \E ok \in BOOLEAN :
         /\ pc' = [pc EXCEPT ![s] = IF ok THEN "catbox" ELSE "except"]
         /\ loop' = IF ok THEN s ELSE 0
    /\ UNCHANGED <<fs, nupd, srv, cv>>

\* the fallback taken only on None
NeedFallback_onlyNone(url) == url.none

\* line 202: if not download_url
NeedFallback(url) == ~Truthy(url)

\* any str, the empty one too, taken for a link
GotLink_anyStr(url) == ~url.none

\* line 205: if download_url
GotLink(url) == Truthy(url)

\* line 201-202
Catbox(s) ==
    /\ pc[s] = "catbox"
    /\ loop = s
    /\ \E r \in Post(fs, h[s].gif, "catbox") :
         LET url == upload_to_catbox(r)
         IN  /\ h' = [h EXCEPT ![s].url = url,
                               ![s].ups = Append(@, Attempt(fs, h[s].gif, "catbox", r))]
             /\ pc' = [pc EXCEPT ![s] =
                         IF NeedFallback(url) THEN "zerox0"
                         ELSE IF GotLink(url) THEN "edit_ready" ELSE "edit_failed"]
             /\ loop' = IF NeedFallback(url) THEN s ELSE 0
    /\ UNCHANGED <<fs, nupd, srv, cv>>

\* line 203-205
ZeroX0(s) ==
    /\ pc[s] = "zerox0"
    /\ loop = s
    /\ \E r \in Post(fs, h[s].gif, "0x0") :
         LET url == upload_to_0x0(r)
         IN  /\ h' = [h EXCEPT ![s].url = url,
                               ![s].ups = Append(@, Attempt(fs, h[s].gif, "0x0", r))]
             /\ pc' = [pc EXCEPT ![s] = IF GotLink(url) THEN "edit_ready" ELSE "edit_failed"]
    /\ loop' = 0
    /\ UNCHANGED <<fs, nupd, srv, cv>>

\* line 207-216
EditReady(s) ==
    /\ pc[s] = "edit_ready"
    /\ loop = 0
    /\ h' = Say(s, "ready", h[s].url.text)
    /\ \E ok \in BOOLEAN :
         pc' = [pc EXCEPT ![s] = IF ok THEN "reply_link" ELSE "except"]
    /\ UNCHANGED <<fs, loop, nupd, srv, cv>>

\* line 219
ReplyLink(s) ==
    /\ pc[s] = "reply_link"
    /\ loop = 0
    /\ h' = Say(s, "link", h[s].url.text)
    /\ \E ok \in BOOLEAN :
         /\ pc' = [pc EXCEPT ![s] = IF ok THEN "cleanup" ELSE "except"]
         /\ loop' = IF ok THEN s ELSE 0
    /\ UNCHANGED <<fs, nupd, srv, cv>>

\* line 222
EditFailed(s) ==
    /\ pc[s] = "edit_failed"
    /\ loop = 0
    /\ h' = Say(s, "failed", <<>>)
    /\ \E ok \in BOOLEAN :
         /\ pc' = [pc EXCEPT ![s] = IF ok THEN "cleanup" ELSE "except"]
         /\ loop' = IF ok THEN s ELSE 0
    /\ UNCHANGED <<fs, nupd, srv, cv>>

\* line 225
Cleanup(s) ==
    /\ pc[s] = "cleanup"
    /\ loop = s
    /\ fs' = Unlink(fs, h[s].gif)
    /\ pc' = [pc EXCEPT ![s] = "returned"]
    /\ h' = [h EXCEPT ![s] = BlankH]
    /\ loop' = 0
    /\ UNCHANGED <<nupd, srv, cv>>

\* line 227-229: the handler's own reply may raise, and then handle_gif raises
Except(s) ==
    /\ pc[s] = "except"
    /\ loop = 0
    /\ h' = [h EXCEPT ![s] = BlankH]
    /\ \E ok \in BOOLEAN :
         pc' = [pc EXCEPT ![s] = IF ok THEN "returned" ELSE "raised"]
    /\ UNCHANGED <<fs, loop, nupd, srv, cv>>

-----------------------------------------------------------------------------
(* Specifications *)

Step(s) ==
    \/ ReplyProcessing(s)
    \/ EditPlease(s)
    \/ GetFile(s)
    \/ Download(s)
    \/ EditConverting(s)
    \/ CheckFfmpeg(s)
    \/ PaletteCmd(s)
    \/ GifCmd(s)
    \/ Inspect(s)
    \/ MedPaletteCmd(s)
    \/ MediumCmd(s)
    \/ FinishMedium(s)
    \/ AfterConvert(s)
    \/ EditUploading(s)
    \/ Catbox(s)
    \/ ZeroX0(s)
    \/ EditReady(s)
    \/ ReplyLink(s)
    \/ EditFailed(s)
    \/ Cleanup(s)
    \/ Except(s)

\* the application as main() builds it: one handler at a time
Next == Main \/ \E s \in Slots : Dispatch(s) \/ Step(s)

Spec == Init /\ [][Next]_vars

-----------------------------------------------------------------------------
(* What the claims speak of *)

Min(S) == CHOOSE x \in S : \A y \in S : x <= y

Max(S) == CHOOSE x \in S : \A y \in S : x >= y

\* a body without its leading and trailing whitespace
Trimmed(b) ==
    LET I == {i \in 1..Len(b) : b[i] \notin Whitespace}
    IN  IF I = {} THEN <<>> ELSE SubSeq(b, Min(I), Max(I))

\* an endpoint attempt failed: exception, non-200, or nothing but whitespace
Failed(r) == r.exc \/ r.status # 200 \/ Trimmed(r.body) = <<>>

Texts(s) == {h[s].msgs[i].text : i \in 1..Len(h[s].msgs)}

Links(s) == {h[s].msgs[i].link : i \in {j \in 1..Len(h[s].msgs) : h[s].msgs[j].text \in {"ready", "link"}}}

\* the job is through with its upload attempts
UploadsOver(s) == h[s].ups # <<>> /\ pc[s] \notin {"catbox", "zerox0"}

\* the job is on the success branch of line 205
ReportsSuccess(s) == pc[s] = "edit_ready" \/ "ready" \in Texts(s)

\* the job is on the failure branch of line 221
ReportsFailure(s) == pc[s] = "edit_failed" \/ "failed" \in Texts(s)

-----------------------------------------------------------------------------
\* C1: the primary endpoint is attempted first; the secondary is attempted
\* if and only if the primary attempt failed (exception, non-200, empty
\* trimmed body); when the primary fails and the secondary succeeds the
\* job's download URL is the secondary's, and no error of an upload attempt
\* reaches the handler's error reply: the upload stage is left only for the
\* success or the failure message.
C1_Attempts ==
    \A s \in Slots :
      LET ups == h[s].ups
      IN  /\ Len(ups) <= 2
          /\ pc[s] = "catbox" => ups = <<>>
          /\ Len(ups) >= 1 => ups[1].ep = "catbox"
          /\ Len(ups) = 2 => ups[2].ep = "0x0" /\ Failed(ups[1].resp)
          /\ pc[s] = "zerox0" => Len(ups) = 1 /\ Failed(ups[1].resp)
          /\ UploadsOver(s) /\ Failed(ups[1].resp) => Len(ups) = 2
          /\ Len(ups) = 2 /\ ~Failed(ups[2].resp) =>
                /\ h[s].url = Str(Trimmed(ups[2].resp.body))
                /\ ReportsSuccess(s)

C1_NothingSurfaces ==
    \A s \in Slots :
      pc[s] \in {"catbox", "zerox0"} =>
        pc'[s] \in {"catbox", "zerox0", "edit_ready", "edit_failed"}

C1_UploadFallback == []C1_Attempts /\ [][C1_NothingSurfaces]_vars

C1_Witness ==
    \E s \in Slots :
      /\ pc[s] = "edit_ready"
      /\ Len(h[s].ups) = 2
      /\ h[s].ups[1].resp = [exc |-> FALSE, status |-> 200, body |-> <<>>]
      /\ h[s].url = Str(<<UrlOf("0x0")>>)

\* C7: when both upload attempts fail the job reports the upload failure to
\* the requester and never a success, and it does not try again: each
\* endpoint is attempted at most once in a job.
C7_ExhaustedIsTerminal ==
    \A s \in Slots :
      LET ups == h[s].ups
      IN  /\ \A i, j \in 1..Len(ups) : ups[i].ep = ups[j].ep => i = j
          /\ (UploadsOver(s) /\ \A i \in 1..Len(ups) : Failed(ups[i].resp)) =>
                /\ Len(ups) = 2
                /\ ReportsFailure(s)
                /\ ~ReportsSuccess(s)
                /\ "link" \notin Texts(s)

C7_Witness ==
    \E s \in Slots :
      /\ pc[s] = "cleanup"
      /\ Len(h[s].ups) = 2
      /\ h[s].ups[1].resp.exc
      /\ h[s].ups[2].resp = [exc |-> FALSE, status |-> 200, body |-> <<"\n">>]
      /\ "failed" \in Texts(s)

\* C8: a job reports success if and only if some endpoint attempt returned
\* status 200 with a non-empty trimmed body, and every link it sends is the
\* trimmed body of the first such attempt, primary before secondary; a 200
\* with an empty or whitespace-only body is never a success.
C8_SuccessCriterion ==
    \A s \in Slots :
      LET ups == h[s].ups
          good == {i \in 1..Len(ups) : ~Failed(ups[i].resp)}
      IN  /\ h[s].ups = <<>> => ~ReportsSuccess(s)
          /\ UploadsOver(s) => (ReportsSuccess(s) <=> good # {})
          /\ ReportsSuccess(s) =>
                /\ h[s].url.text = Trimmed(ups[Min(good)].resp.body)
                /\ Links(s) \subseteq {Trimmed(ups[Min(good)].resp.body)}
          /\ Links(s) # {} => ReportsSuccess(s)

C8_Witness ==
    \E s \in Slots :
      /\ pc[s] = "cleanup"
      /\ Len(h[s].ups) = 2
      /\ h[s].ups[1].resp = [exc |-> FALSE, status |-> 500, body |-> <<UrlOf("catbox"), "\n">>]
      /\ h[s].ups[2].resp = [exc |-> FALSE, status |-> 200, body |-> <<UrlOf("0x0"), "\n">>]
      /\ Links(s) = {<<UrlOf("0x0")>>}
      /\ Len(h[s].msgs) = 5

-----------------------------------------------------------------------------
(* convert_to_gif at its return, pc = "converted", its frame still there *)

Attempted(s, cmd) == \E i \in 1..Len(cv[s].runs) : cv[s].runs[i].cmd = cmd

RunOf(s, cmd) == cv[s].runs[CHOOSE i \in 1..Len(cv[s].runs) : cv[s].runs[i].cmd = cmd]

\* the invocation wrote its output file
Wrote(r) == r.written # NoContent

\* the second (400px) profile was invoked
SecondInvoked(s) == Attempted(s, "med_palette") \/ Attempted(s, "medium")

\* C2: when the tool is there and the first transcode produces an artifact
\* of at most 8 MB, convert_to_gif returns that artifact and the second
\* profile is never invoked; the second profile is invoked only after the
\* first profile produced an artifact strictly over the budget.
C2_BudgetFit ==
    \A s \in Slots :
      pc[s] = "converted" /\ cv[s].tool = "available" =>
        /\ (Attempted(s, "gif") /\ Wrote(RunOf(s, "gif"))
              /\ RunOf(s, "gif").written.size <= BUDGET_MB * 1024 * 1024) =>
              /\ cv[s].ret = cv[s].gif
              /\ Exists(fs, cv[s].ret) /\ fs[cv[s].ret] = RunOf(s, "gif").written
              /\ ~SecondInvoked(s)
        /\ SecondInvoked(s) =>
              /\ Attempted(s, "gif") /\ Wrote(RunOf(s, "gif"))
              /\ RunOf(s, "gif").written.size > BUDGET_MB * 1024 * 1024

\* C3: whenever the first profile's artifact is over the budget and the
\* second profile produces an output file, convert_to_gif returns the second
\* profile's artifact, over the budget or not, never the input and never the
\* first artifact, and the first profile's file is gone on return.
C3_ExhaustionFallback ==
    \A s \in Slots :
      (/\ pc[s] = "converted"
       /\ Attempted(s, "gif") /\ Wrote(RunOf(s, "gif"))
       /\ RunOf(s, "gif").written.size > BUDGET_MB * 1024 * 1024
       /\ Attempted(s, "medium") /\ Wrote(RunOf(s, "medium"))) =>
         /\ cv[s].ret = cv[s].medium
         /\ cv[s].ret # cv[s].input /\ cv[s].ret # cv[s].gif
         /\ Exists(fs, cv[s].ret) /\ fs[cv[s].ret] = RunOf(s, "medium").written
         /\ ~Exists(fs, cv[s].gif)

C3_Witness ==
    \E s \in Slots :
      /\ pc[s] = "converted"
      /\ Attempted(s, "gif") /\ RunOf(s, "gif").written.size > BUDGET_MB * 1024 * 1024
      /\ Attempted(s, "medium") /\ RunOf(s, "medium").rc = 0
      /\ RunOf(s, "medium").written.size > BUDGET_MB * 1024 * 1024
      /\ cv[s].ret = cv[s].medium

\* C4: with the tool reported unavailable convert_to_gif returns the input
\* path, runs no subprocess and leaves every file as it was; handle_gif then
\* keeps the original and gives exactly it, at its downloaded size, to the
\* upload endpoints.
C4_PassthroughState ==
    \A s \in Slots :
      /\ pc[s] = "converted" /\ cv[s].tool = "unavailable" =>
            cv[s].ret = cv[s].input /\ cv[s].input = h[s].temp /\ cv[s].runs = <<>>
      /\ h[s].tool = "unavailable" =>
            /\ h[s].gif = h[s].temp
            /\ h[s].size = h[s].dl.size
            /\ pc[s] \in {"edit_uploading", "catbox", "zerox0"} =>
                  Exists(fs, h[s].temp) /\ fs[h[s].temp] = h[s].dl
            /\ \A i \in 1..Len(h[s].ups) :
                  h[s].ups[i].path = h[s].temp /\ h[s].ups[i].sent = h[s].dl

C4_PassthroughStep ==
    \A s \in Slots :
      /\ pc[s] = "check_ffmpeg" /\ pc'[s] = "converted" => fs' = fs
      /\ pc[s] = "converted" /\ cv[s].tool = "unavailable" =>
            fs' = fs /\ pc'[s] = "edit_uploading"

C4_ToolUnavailablePassthrough == []C4_PassthroughState /\ [][C4_PassthroughStep]_vars

C4_Witness ==
    \E s \in Slots :
      /\ h[s].tool = "unavailable"
      /\ Len(h[s].ups) = 2
      /\ h[s].ups[2].sent = Content(BudgetBytes + 1, "download", s)
      /\ h[s].upd.kind = "animation"

\* C5: after handle_gif has finished, by return or by raising, no scratch
\* file the job created is left in temp_gifs.
C5_ScratchCleanup ==
    \A s \in Slots :
      pc[s] \in {"returned", "raised"} => \A p \in DOMAIN fs : fs[p].by # s

\* C9: an ffmpeg invocation that exits with a non-zero status is a failed
\* transcode: the file at its output path is not what convert_to_gif returns,
\* and is not uploaded.
C9_ExitStatusDecides ==
    \A s \in Slots :
      /\ pc[s] = "converted" =>
            /\ Attempted(s, "gif") /\ RunOf(s, "gif").rc > 0 => cv[s].ret # cv[s].gif
            /\ Attempted(s, "medium") /\ RunOf(s, "medium").rc > 0 => cv[s].ret # cv[s].medium
      /\ \A i \in 1..Len(h[s].ups) : h[s].ups[i].sent.kind # "truncated"

\* C10: when the transcode of the first profile fails (the tool ran, exited
\* with a non-zero status and left no output), the second profile is
\* attempted before convert_to_gif falls back to the original input, and no
\* profile is attempted twice.
C10_FailureAdvances ==
    \A s \in Slots :
      /\ \A i, j \in 1..Len(cv[s].runs) : cv[s].runs[i].cmd = cv[s].runs[j].cmd => i = j
      /\ (/\ pc[s] = "converted"
          /\ Attempted(s, "gif") /\ RunOf(s, "gif").rc > 0 /\ ~Wrote(RunOf(s, "gif"))
          /\ cv[s].ret = cv[s].input) => Attempted(s, "medium")

-----------------------------------------------------------------------------
\* C11: every error raised by a step of a job is caught at the job boundary
\* and turned into a message to the requester, and handle_gif never raises,
\* not when the failing step is a chat-platform call and not when the update
\* carries no message object.
C11_ErrorContainment ==
    \A s \in Slots : pc[s] # "raised"

\* a subprocess.run of the job's convert_to_gif is being made
Transcoding(s) == pc[s] \in {"palette", "gif_cmd", "med_palette", "med_cmd"}

\* C12: while one job's external tool invocation is in progress the event
\* loop is not held by that job, and the application can still hand a
\* further update to a handler.
C12_NonBlockingTranscode ==
    \A s \in Slots :
      Transcoding(s) =>
        /\ loop # s
        /\ nupd < MaxUpdates => ENABLED (\E t \in Slots : Dispatch(t))

\* C13: with BOT_TOKEN absent or empty main returns at once: the health-check
\* thread is never started, the application is never built, polling never
\* begins and no job handler runs.
C13_MissingTokenFatal ==
    ~(~srv.token.none /\ srv.token.text # <<>>) =>
        /\ srv.pc \in {"main", "exited"}
        /\ ~srv.flask
        /\ ~srv.app
        /\ nupd = 0
        /\ \A s \in Slots : pc[s] = "idle"

C13_Witness ==
    /\ srv.token = Str(<<>>)
    /\ srv.pc = "exited"

\* the place of an invocation in the ladder: the 500px profile, then the 400px
Rung(cmd) == IF cmd \in {"palette", "gif"} THEN 1 ELSE 2

\* C14: the profiles are tried in ladder order, and when the transcode of
\* the 400px profile is invoked the 500px first-pass GIF is already gone
\* from disk.
C14_SupersedeBeforeNext ==
    \A s \in Slots :
      /\ \A i, j \in 1..Len(cv[s].runs) :
            i < j => Rung(cv[s].runs[i].cmd) <= Rung(cv[s].runs[j].cmd)
      /\ pc[s] \in {"med_palette", "med_cmd"} => ~Exists(fs, cv[s].gif)

\* the path an invocation of the job's convert_to_gif writes to
OutputOf(s, cmd) ==
    IF cmd = "palette" THEN cv[s].palette
    ELSE IF cmd = "gif" THEN cv[s].gif
    ELSE IF cmd = "med_palette" THEN MedPalettePath(cv[s].input)
    ELSE MediumPath(cv[s].input, cv[s].gif)

PaletteCmds == {"palette", "med_palette"}

\* C15: every palette image convert_to_gif wrote is deleted when it returns,
\* on every return path, the exception path too, and what the upload
\* endpoints are given is never a palette image.
C15_PaletteNeverLeaks ==
    \A s \in Slots :
      /\ pc[s] = "converted" =>
            \A i \in 1..Len(cv[s].runs) :
              (cv[s].runs[i].cmd \in PaletteCmds /\ Wrote(cv[s].runs[i])) =>
                 ~Exists(fs, OutputOf(s, cv[s].runs[i].cmd))
      /\ \A i \in 1..Len(h[s].ups) :
            /\ h[s].ups[i].sent.kind \notin PaletteCmds
            /\ h[s].ups[i].path \notin {PalettePath(h[s].temp), MedPalettePath(h[s].temp)}

\* convert_to_gif has been entered and handle_gif has not yet resumed
Converting(s) ==
    pc[s] \in {"check_ffmpeg", "palette", "gif_cmd", "inspect", "med_palette",
               "med_cmd", "finish_medium", "converted"}

\* C16: for every input handle_gif accepts, a document named *.gif too, the
\* output path of the first transcode differs from the input path, and the
\* downloaded original is on disk as downloaded until handle_gif deletes it.
C16_TranscodeWritesNewFile ==
    \A s \in Slots :
      Converting(s) =>
        /\ cv[s].gif # cv[s].input
        /\ Exists(fs, cv[s].input) /\ fs[cv[s].input] = h[s].dl

\* C17: over any sequence of jobs, whatever convert_to_gif returns other
\* than its input was written by an ffmpeg invocation of that same call, and
\* a file an earlier job left at an output path is never returned, measured
\* and uploaded as the result of the current job.
C17_NoStaleResult ==
    \A s \in Slots :
      /\ (pc[s] = "converted" /\ cv[s].ret # cv[s].input) =>
            /\ Exists(fs, cv[s].ret)
            /\ \E i \in 1..Len(cv[s].runs) :
                 /\ Wrote(cv[s].runs[i])
                 /\ OutputOf(s, cv[s].runs[i].cmd) = cv[s].ret
                 /\ fs[cv[s].ret] = cv[s].runs[i].written
      /\ \A i \in 1..Len(h[s].ups) : h[s].ups[i].sent.by = s

\* the step deletes the file at p
Deletes(p) == Exists(fs, p) /\ ~Exists(fs', p)

\* the original or a GIF artifact of the job, not one of its palettes
ArtifactOf(s, p) ==
    /\ fs'[p].by = s
    /\ p \notin {PalettePath(h[s].temp), MedPalettePath(h[s].temp)}

\* C18: in a job that handle_gif completes without an exception, the
\* downloaded original is deleted only if a different artifact was returned,
\* the final artifact is deleted only after all upload attempts of the job
\* have finished, and when handle_gif returns neither the original nor any
\* GIF artifact of the job is left on disk.
C18_Step ==
    \A s \in Slots :
      /\ (h[s].temp # NoPath /\ Deletes(h[s].temp)) =>
            \/ pc[s] = "finish_medium" /\ cv'[s].ret # h[s].temp
            \/ pc[s] = "converted" /\ cv[s].ret # h[s].temp
            \/ pc[s] = "cleanup" /\ h[s].gif = h[s].temp
      /\ (h[s].gif # NoPath /\ Deletes(h[s].gif)) =>
            pc[s] = "cleanup" /\ h[s].ups # <<>>
      /\ (pc[s] = "cleanup" /\ pc'[s] = "returned") =>
            \A p \in DOMAIN fs' : ~ArtifactOf(s, p)

C18_CleanupOnSuccess == [][C18_Step]_vars

====
